---- MODULE Spec2Model ----
(***************************************************************************)
(* Model of src/User_GUi/lifeline.py: the Flask request handlers sos,      *)
(* triage, profile and dashboard, the ai_triage decision function and the  *)
(* SQLite tables alerts and profile they share.                            *)
(*                                                                         *)
(* Text is modelled as a sequence of one-character strings, so that        *)
(* lower(), strip() and the substring test "kw in text" are computed       *)
(* character by character as Python computes them.                         *)
(***************************************************************************)
EXTENDS Integers, Sequences, FiniteSets

(***************************************************************************)
(* Bounds of the model.                                                    *)
(***************************************************************************)
\* Number of concurrent request-handling units (Flask serves each request
\* on a thread of its own).
MaxRequests == 3
\* Largest wall-clock reading datetime.now() yields.
MaxTime == 1
\* Largest number of text fragments a symptom text is built from.
MaxParts == 2

Requests == 1..MaxRequests
Times == 0..MaxTime

\* Python's None where a text may stand, as a value comparable with text.
None == <<"<None>">>
\* A request that carries no form, a handler with no open transaction, a
\* client call that has not ended, a handler that has not answered.
NoForm == [fields |-> 0]
NoRow == [id |-> 0]
NoReply == [kind |-> "none", content |-> None]
NoResponse == [status |-> 0]

(***************************************************************************)
(* Text                                                                    *)
(***************************************************************************)
UpperCase == << "A","B","C","D","E","F","G","H","I","J","K","L","M",
                "N","O","P","Q","R","S","T","U","V","W","X","Y","Z" >>
LowerCase == << "a","b","c","d","e","f","g","h","i","j","k","l","m",
                "n","o","p","q","r","s","t","u","v","w","x","y","z" >>
Whitespace == {" ", "\n", "\t", "\r"}

\* str.lower() on one character.
LowerChar(c) ==
    IF \E i \in 1..Len(UpperCase) : UpperCase[i] = c
    THEN LowerCase[CHOOSE i \in 1..Len(UpperCase) : UpperCase[i] = c]
    ELSE c

\* str.lower()
lower(s) == [i \in 1..Len(s) |-> LowerChar(s[i])]

\* str.strip(): drops leading and trailing whitespace.
strip(s) ==
    LET keep == {i \in 1..Len(s) : s[i] \notin Whitespace}
    IN  IF keep = {} THEN <<>>
        ELSE SubSeq(s, CHOOSE i \in keep : \A k \in keep : i <= k,
                       CHOOSE j \in keep : \A k \in keep : k <= j)

\* Python's "kw in text" on strings: kw occurs as a contiguous substring.
In(kw, text) ==
    \E i \in 0..(Len(text) - Len(kw)) : SubSeq(text, i + 1, i + Len(kw)) = kw

\* The keywords of the fallback rules and the texts it returns.
kwBleeding    == <<"b","l","e","e","d","i","n","g">>
kwUnconscious == <<"u","n","c","o","n","s","c","i","o","u","s">>
kwHeart       == <<"h","e","a","r","t">>
kwPain        == <<"p","a","i","n">>
kwFever       == <<"f","e","v","e","r">>

sCritical  == <<"C","r","i","t","i","c","a","l">>
sUrgent    == <<"U","r","g","e","n","t">>
sNonUrgent == <<"N","o","n","-","U","r","g","e","n","t">>
sFallback  == <<" ","(","f","a","l","l","b","a","c","k",")">>

(***************************************************************************)
(* ai_triage                                                               *)
(***************************************************************************)
\* A variant of the fallback rules that tests the Urgent keywords first.
fallbackUrgentFirst(symptoms) ==
    LET text == lower(symptoms)
    IN  IF In(kwPain, text) \/ In(kwFever, text)
        THEN sUrgent \o sFallback
        ELSE IF In(kwBleeding, text) \/ In(kwUnconscious, text) \/ In(kwHeart, text)
        THEN sCritical \o sFallback
        ELSE sNonUrgent \o sFallback

\* The except branch of ai_triage: the rule-based classification.
fallback(symptoms) ==
    LET text == lower(symptoms)
    IN  IF In(kwBleeding, text) \/ In(kwUnconscious, text) \/ In(kwHeart, text)
        THEN sCritical \o sFallback
        ELSE IF In(kwPain, text) \/ In(kwFever, text)
        THEN sUrgent \o sFallback
        ELSE sNonUrgent \o sFallback

\* What client.chat.completions.create can hand back to ai_triage: a
\* response carrying a message content (a text, or None), or an exception.
Raised == [kind |-> "raise", content |-> None]
Response(content) == [kind |-> "response", content |-> content]

\* A variant of ai_triage that returns the message content unstripped.
ai_triageNoStrip(symptoms, outcome) ==
    IF outcome.kind = "response" /\ outcome.content # None
    THEN outcome.content
    ELSE fallback(symptoms)

\* ai_triage once the client call has ended with `outcome`: the stripped
\* message content, or the fallback when anything in the try block raised
\* (the call itself, or .strip() on a None content).
ai_triage(symptoms, outcome) ==
    IF outcome.kind = "response" /\ outcome.content # None
    THEN strip(outcome.content)
    ELSE fallback(symptoms)

(***************************************************************************)
(* Inputs                                                                  *)
(***************************************************************************)
\* Fragments symptom texts are built from: the five keywords in various
\* letter cases, a keyword split in two ("hea" + "rtburn"), and text that
\* holds no keyword.
Fragments ==
    { kwBleeding,
      <<"U","N","C","O","N","S","C","I","O","U","S">>,
      <<"H","e","a","r","t">>,
      kwPain,
      <<"F","e","V","e","r">>,
      <<"h","e","a">>,
      <<"r","t","b","u","r","n">>,
      <<"c","o","u","g","h">>,
      <<" ">> }

RECURSIVE Texts(_)
\* Every concatenation of at most n fragments.
Texts(n) ==
    IF n = 0 THEN {<<>>}
    ELSE LET shorter == Texts(n - 1)
         IN  shorter \cup {p \o f : p \in shorter, f \in Fragments}

sMaybe == <<"M","a","y","b","e">>

\* Message contents the AI service may answer with.
AiContents ==
    { sCritical, sUrgent, sNonUrgent,
      <<" ">> \o sCritical \o <<"\n">>,
      lower(sUrgent),
      <<"N","O","N","-","U","R","G","E","N","T"," ">>,
      sMaybe,
      sUrgent \o <<".">>,
      <<>>,
      None }

\* The triage page's form and the service's outcomes, for one triage
\* request handled alone.
TriageForms == [symptoms : Texts(MaxParts), notes : {<<"n">>}]
AiOutcomes  == {Raised} \cup {Response(c) : c \in AiContents}

\* The smaller inputs used when requests run concurrently.
ConcurrentTriageForms == [symptoms : {<<>>, kwPain}, notes : {<<"n">>}]
ConcurrentAiOutcomes  == {Raised, Response(sUrgent), Response(sMaybe)}

\* request.form of the SOS page: "notes" may be absent.
SosForms == [notes : {<<"A">>, <<"B">>, None}]

\* request.form of the profile page: a full form, and one whose fields are
\* absent.
ProfileForms ==
    { [full_name |-> <<"P">>, age |-> <<"0","4","2">>, blood_group |-> <<"O">>,
       language |-> <<"e","n">>, allergies |-> <<>>, conditions |-> <<>>,
       emergency_contact_name |-> <<"Q">>, emergency_contact_phone |-> <<"1">>],
      [full_name |-> None, age |-> <<"x">>, blood_group |-> None,
       language |-> None, allergies |-> None, conditions |-> None,
       emergency_contact_name |-> None, emergency_contact_phone |-> None] }

\* request.form.get(key, default) for a field read from the form.
FormGet(value, default) == IF value = None THEN default ELSE value

(***************************************************************************)
(* State                                                                   *)
(***************************************************************************)
VARIABLES
    alerts,     \* table alerts: the committed rows, in rowid order
    seq,        \* sqlite_sequence entry of alerts (AUTOINCREMENT)
    profile,    \* table profile: the committed rows
    dbLock,     \* the request whose connection holds the write lock, or 0
    pc,         \* where each request's handler stands
    req,        \* the request each handler serves
    txn,        \* the row a handler's open transaction has inserted
    aiSent,     \* the symptom texts each handler has sent to the AI service
    aiReply,    \* how the client call of a handler ended
    resp        \* the response each handler returned

vars == <<alerts, seq, profile, dbLock, pc, req, txn, aiSent, aiReply, resp>>

NoRequest == [route |-> "", method |-> "", form |-> NoForm]

Init ==
    /\ alerts = <<>>
    /\ seq = 0
    /\ profile = <<>>
    /\ dbLock = 0
    /\ pc = [r \in Requests |-> "new"]
    /\ req = [r \in Requests |-> NoRequest]
    /\ txn = [r \in Requests |-> NoRow]
    /\ aiSent = [r \in Requests |-> <<>>]
    /\ aiReply = [r \in Requests |-> NoReply]
    /\ resp = [r \in Requests |-> NoResponse]

(***************************************************************************)
(* The SQLite tables                                                       *)
(***************************************************************************)
\* The stubbed location of sos(), in hundredths of a degree.
StubLat == 2861
StubLng == 7720

\* Largest id among rows (0 when there is none).
MaxId(rows) ==
    IF rows = <<>> THEN 0
    ELSE LET ids == {rows[i].id : i \in 1..Len(rows)}
         IN  CHOOSE m \in ids : \A k \in ids : k <= m

\* A variant of the id assignment that hands out the last id again.
NextRowIdReused(rows, s) ==
    IF s = 0 THEN 1 ELSE s

\* id INTEGER PRIMARY KEY AUTOINCREMENT: one more than the largest rowid the
\* table has ever held (sqlite_sequence) or holds now.
NextRowId(rows, s) ==
    (IF MaxId(rows) > s THEN MaxId(rows) ELSE s) + 1

\* A variant of the commit that overwrites the newest row.
CommittedOverLast(rows, row) ==
    IF rows = <<>> THEN <<row>> ELSE [rows EXCEPT ![Len(rows)] = row]

\* conn.commit() of the INSERT of sos(): the inserted row joins the table.
Committed(rows, row) == Append(rows, row)

\* A variant of the rollback that keeps the inserted row.
RolledBackKeepsRow(rows, row) == Append(rows, row)

\* The connection's context manager on an exception: the transaction is
\* rolled back and the table is as it was.
RolledBack(rows, row) == rows

RECURSIVE OrderByIdAsc(_)
\* A variant of the dashboard query that orders by ascending id.
OrderByIdAsc(rows) ==
    IF rows = <<>> THEN <<>>
    ELSE LET i == CHOOSE k \in 1..Len(rows) :
                      \A j \in 1..Len(rows) : rows[k].id <= rows[j].id
         IN  <<rows[i]>> \o
             OrderByIdAsc(SubSeq(rows, 1, i - 1) \o SubSeq(rows, i + 1, Len(rows)))

RECURSIVE OrderByIdDesc(_)
\* SELECT ... FROM alerts ORDER BY id DESC
OrderByIdDesc(rows) ==
    IF rows = <<>> THEN <<>>
    ELSE LET i == CHOOSE k \in 1..Len(rows) :
                      \A j \in 1..Len(rows) : rows[k].id >= rows[j].id
         IN  <<rows[i]>> \o
             OrderByIdDesc(SubSeq(rows, 1, i - 1) \o SubSeq(rows, i + 1, Len(rows)))

Digits == <<"0","1","2","3","4","5","6","7","8","9">>
IsDigit(c) == \E d \in 1..10 : Digits[d] = c
DigitValue(c) == (CHOOSE d \in 1..10 : Digits[d] = c) - 1

RECURSIVE ToInt(_)
ToInt(s) ==
    IF s = <<>> THEN 0
    ELSE 10 * ToInt(SubSeq(s, 1, Len(s) - 1)) + DigitValue(s[Len(s)])

RECURSIVE ToText(_)
ToText(n) ==
    IF n < 10 THEN <<Digits[n + 1]>>
    ELSE ToText(n \div 10) \o <<Digits[(n % 10) + 1]>>

\* Column "age INTEGER": a text that reads as an integer is stored as that
\* integer (written here in decimal, so "042" is stored as 42), any other
\* value as it is.
IntegerAffinity(v) ==
    IF v # None /\ v # <<>> /\ \A i \in 1..Len(v) : IsDigit(v[i])
    THEN ToText(ToInt(v))
    ELSE v

\* The row profile() inserts for a submitted form.
ProfileRow(form) ==
    [id |-> 1,
     full_name |-> form.full_name,
     age |-> IntegerAffinity(form.age),
     blood_group |-> form.blood_group,
     language |-> form.language,
     allergies |-> form.allergies,
     conditions |-> form.conditions,
     emergency_contact_name |-> form.emergency_contact_name,
     emergency_contact_phone |-> form.emergency_contact_phone]

\* SELECT * FROM profile WHERE id=1, fetchone(), dict(row): the rows found,
\* none or one.
ProfileData ==
    LET found == {i \in 1..Len(profile) : profile[i].id = 1}
    IN  IF found = {} THEN <<>>
        ELSE <<profile[CHOOSE i \in found : \A k \in found : i <= k]>>

\* The roster dashboard() renders (coordinates in ten-thousandths of a degree).
Ambulances ==
    << [id |-> 1, name |-> "Ambulance A", lat |-> 286139, lng |-> 772090, status |-> "available"],
       [id |-> 2, name |-> "Ambulance B", lat |-> 286200, lng |-> 772150, status |-> "busy"],
       [id |-> 3, name |-> "Ambulance C", lat |-> 286250, lng |-> 772000, status |-> "available"] >>

(***************************************************************************)
(* Responses                                                               *)
(***************************************************************************)
\* What Flask answers when a handler lets an exception escape.
ServerError == [status |-> 500]

\* A variant of the triage guard that classifies whatever was posted.
ShouldClassifyAlways(symptoms_text) == TRUE

\* "if symptoms_text:" in triage(): an empty text is not classified.
ShouldClassify(symptoms_text) == symptoms_text # <<>>

\* render_template("triage.html", triage=..., symptoms=..., notes=...)
TriagePage(triage_result, symptoms_text, notes) ==
    [status |-> 200, template |-> "triage.html", triage |-> triage_result,
     symptoms |-> symptoms_text, notes |-> notes]

\* flash(...) and redirect(url_for(...)) of a handled POST.
Redirect(location, message) ==
    [status |-> 302, location |-> location, flashed |-> message]

Serve(r, route, method, form) ==
    req' = [req EXCEPT ![r] = [route |-> route, method |-> method, form |-> form]]

Answer(r, response) ==
    /\ resp' = [resp EXCEPT ![r] = response]
    /\ pc' = [pc EXCEPT ![r] = "done"]

(***************************************************************************)
(* sos()                                                                   *)
(***************************************************************************)
\* GET /sos
SosGet(r) ==
    /\ pc[r] = "new"
    /\ Serve(r, "/sos", "GET", NoForm)
    /\ Answer(r, [status |-> 200, template |-> "sos.html",
                  status_text |-> "Idle", refresh |-> TRUE])
    /\ UNCHANGED <<alerts, seq, profile, dbLock, txn, aiSent, aiReply>>

\* POST /sos up to cur.execute(INSERT ...): the connection takes the write
\* lock and its transaction holds the new row, which no other connection
\* sees before the commit.
SosInsert(r) ==
    /\ pc[r] = "new"
    /\ dbLock = 0
    /\ \E form \in SosForms, now \in Times :
          /\ Serve(r, "/sos", "POST", form)
          /\ txn' = [txn EXCEPT ![r] =
                        [id |-> NextRowId(alerts, seq),
                         created_at |-> now,
                         lat |-> StubLat,
                         lng |-> StubLng,
                         triage_level |-> sCritical,
                         notes |-> FormGet(form.notes, <<>>)]]
    /\ dbLock' = r
    /\ pc' = [pc EXCEPT ![r] = "commit"]
    /\ UNCHANGED <<alerts, seq, profile, aiSent, aiReply, resp>>

\* POST /sos when connect() or cur.execute(INSERT ...) raises (the database
\* is locked past the busy timeout, or cannot be written): the exception
\* leaves sos().
SosInsertFail(r) ==
    /\ pc[r] = "new"
    /\ \E form \in SosForms : Serve(r, "/sos", "POST", form)
    /\ Answer(r, ServerError)
    /\ UNCHANGED <<alerts, seq, profile, dbLock, txn, aiSent, aiReply>>

\* conn.commit(), then flash and redirect.
SosCommit(r) ==
    /\ pc[r] = "commit"
    /\ alerts' = Committed(alerts, txn[r])
    /\ seq' = txn[r].id
    /\ dbLock' = 0
    /\ txn' = [txn EXCEPT ![r] = NoRow]
    /\ Answer(r, Redirect("/sos", "SOS sent! Nearest ambulance being dispatched."))
    /\ UNCHANGED <<profile, req, aiSent, aiReply>>

\* conn.commit() raises: the with block rolls the transaction back and the
\* exception leaves sos().
SosCommitFail(r) ==
    /\ pc[r] = "commit"
    /\ alerts' = RolledBack(alerts, txn[r])
    /\ dbLock' = 0
    /\ txn' = [txn EXCEPT ![r] = NoRow]
    /\ Answer(r, ServerError)
    /\ UNCHANGED <<seq, profile, req, aiSent, aiReply>>

(***************************************************************************)
(* triage()                                                                *)
(***************************************************************************)
\* GET /triage
TriageGet(r) ==
    /\ pc[r] = "new"
    /\ Serve(r, "/triage", "GET", NoForm)
    /\ Answer(r, TriagePage(None, <<>>, <<>>))
    /\ UNCHANGED <<alerts, seq, profile, dbLock, txn, aiSent, aiReply>>

\* POST /triage up to the client call of ai_triage: with symptoms the
\* prompt is sent and the handler waits for the call to end; without, the
\* page is rendered at once.
TriagePost(r, forms) ==
    /\ pc[r] = "new"
    /\ \E form \in forms :
          LET symptoms_text == FormGet(form.symptoms, <<>>)
              notes == FormGet(form.notes, <<>>)
          IN  /\ Serve(r, "/triage", "POST", form)
              /\ IF ShouldClassify(symptoms_text)
                 THEN /\ aiSent' = [aiSent EXCEPT ![r] = Append(@, symptoms_text)]
                      /\ pc' = [pc EXCEPT ![r] = "await_ai"]
                      /\ UNCHANGED resp
                 ELSE /\ Answer(r, TriagePage(None, symptoms_text, notes))
                      /\ UNCHANGED aiSent
    /\ UNCHANGED <<alerts, seq, profile, dbLock, txn, aiReply>>

\* The client call ends, with a response or an exception; ai_triage returns
\* and the page is rendered.
AiReturn(r, outcomes) ==
    /\ pc[r] = "await_ai"
    /\ \E outcome \in outcomes :
          LET symptoms_text == FormGet(req[r].form.symptoms, <<>>)
              notes == FormGet(req[r].form.notes, <<>>)
          IN  /\ aiReply' = [aiReply EXCEPT ![r] = outcome]
              /\ Answer(r, TriagePage(ai_triage(symptoms_text, outcome),
                                      symptoms_text, notes))
    /\ UNCHANGED <<alerts, seq, profile, dbLock, req, txn, aiSent>>

(***************************************************************************)
(* profile()                                                               *)
(***************************************************************************)
\* POST /profile: DELETE FROM profile, INSERT the form as row 1, commit.
ProfilePost(r) ==
    /\ pc[r] = "new"
    /\ dbLock = 0
    /\ \E form \in ProfileForms :
          /\ Serve(r, "/profile", "POST", form)
          /\ profile' = <<ProfileRow(form)>>
    /\ Answer(r, Redirect("/profile", "Profile saved."))
    /\ UNCHANGED <<alerts, seq, dbLock, txn, aiSent, aiReply>>

\* GET /profile
ProfileGet(r) ==
    /\ pc[r] = "new"
    /\ Serve(r, "/profile", "GET", NoForm)
    /\ Answer(r, [status |-> 200, template |-> "profile.html", p |-> ProfileData])
    /\ UNCHANGED <<alerts, seq, profile, dbLock, txn, aiSent, aiReply>>

(***************************************************************************)
(* dashboard()                                                             *)
(***************************************************************************)
Dashboard(r) ==
    /\ pc[r] = "new"
    /\ Serve(r, "/dashboard", "GET", NoForm)
    /\ Answer(r, [status |-> 200, template |-> "dashboard.html",
                  alerts |-> OrderByIdDesc(alerts),
                  ambulances |-> Ambulances, refresh |-> TRUE])
    /\ UNCHANGED <<alerts, seq, profile, dbLock, txn, aiSent, aiReply>>

(***************************************************************************)
(* Specifications                                                          *)
(***************************************************************************)
\* The steps a handler takes on its own.
HandlerStep(r) ==
    \/ SosGet(r)
    \/ SosInsert(r)
    \/ SosInsertFail(r)
    \/ SosCommit(r)
    \/ SosCommitFail(r)
    \/ TriageGet(r)
    \/ TriagePost(r, ConcurrentTriageForms)
    \/ ProfilePost(r)
    \/ ProfileGet(r)
    \/ Dashboard(r)

Next ==
    \E r \in Requests :
        \/ HandlerStep(r)
        \/ AiReturn(r, ConcurrentAiOutcomes)

\* Requests handled concurrently.
Spec == Init /\ [][Next]_vars

\* Every handler keeps running; nothing obliges the AI service to answer.
FairSpec == Spec /\ \A r \in Requests : WF_vars(HandlerStep(r))

\* One triage submission handled alone, over the full range of symptom
\* texts and service outcomes.
TriageNext ==
    \E r \in Requests :
        \/ (\A q \in Requests \ {r} : pc[q] = "new") /\ TriagePost(r, TriageForms)
        \/ (\A q \in Requests \ {r} : pc[q] = "new") /\ AiReturn(r, AiOutcomes)

TriageSpec == Init /\ [][TriageNext]_vars

(***************************************************************************)
(* Vocabulary of the properties                                            *)
(***************************************************************************)
Done(r) == pc[r] = "done"
IsSosPost(r) == req[r].route = "/sos" /\ req[r].method = "POST"
IsTriagePost(r) == req[r].route = "/triage" /\ req[r].method = "POST"
IsDashboard(r) == req[r].route = "/dashboard"
SymptomsOf(r) == FormGet(req[r].form.symptoms, <<>>)
NotesOf(r) == FormGet(req[r].form.notes, <<>>)

\* A triage submission whose client call has ended.
Classified(r) == Done(r) /\ IsTriagePost(r) /\ aiSent[r] # <<>>
\* An SOS submission that was answered with the redirect.
SosSucceeded(r) == Done(r) /\ IsSosPost(r) /\ resp[r].status = 302
\* An SOS submission that was answered with an error.
SosFailed(r) == Done(r) /\ IsSosPost(r) /\ resp[r].status = 500

\* Two characters are the same letter, whatever their case.
SameLetter(a, b) ==
    \/ a = b
    \/ \E i \in 1..Len(UpperCase) : {a, b} = {UpperCase[i], LowerCase[i]}

\* Two texts are equal up to letter case.
SameText(x, y) ==
    Len(x) = Len(y) /\ \A j \in 1..Len(x) : SameLetter(x[j], y[j])

\* kw occurs in text, in any letter case.
Mentions(text, kw) ==
    \E i \in 0..(Len(text) - Len(kw)) :
        \A j \in 1..Len(kw) : SameLetter(text[i + j], kw[j])

\* The level the rule-based policy gives a symptom text.
RuleLevel(text) ==
    IF Mentions(text, kwBleeding) \/ Mentions(text, kwUnconscious) \/ Mentions(text, kwHeart)
    THEN sCritical
    ELSE IF Mentions(text, kwPain) \/ Mentions(text, kwFever)
    THEN sUrgent
    ELSE sNonUrgent

LevelNames == {sCritical, sUrgent, sNonUrgent}

\* x is t without its leading and trailing whitespace.
TrimOf(t, x) ==
    \E i \in 0..Len(t) : \E j \in i..Len(t) :
        /\ x = SubSeq(t, i + 1, j)
        /\ \A k \in 1..i : t[k] \in Whitespace
        /\ \A k \in (j + 1)..Len(t) : t[k] \in Whitespace
        /\ x # <<>> => (x[1] \notin Whitespace /\ x[Len(x)] \notin Whitespace)

\* The level a message content names: trimmed and in any letter case it is
\* exactly one of the three level names.
NamesLevel(content, level) ==
    /\ content # None
    /\ level \in LevelNames
    /\ \E x \in {SubSeq(content, i, j) : i \in 1..Len(content), j \in 1..Len(content)} :
          TrimOf(content, x) /\ SameText(x, level)

\* The client call failed: it raised, or its content names no level.
AiFailed(r) ==
    \/ aiReply[r].kind = "raise"
    \/ \A level \in LevelNames : ~NamesLevel(aiReply[r].content, level)

\* A result carries the fallback tag.
TaggedFallback(result) ==
    /\ Len(result) >= Len(sFallback)
    /\ SubSeq(result, Len(result) - Len(sFallback) + 1, Len(result)) = sFallback

\* The provenance a result text shows: ai_triage marks a fallback result
\* with the suffix " (fallback)" and an AI result with none.
Provenance(result) == IF TaggedFallback(result) THEN "fallback" ELSE "ai"

sAi == <<" ","(","a","i",")">>
\* The texts a triage level may take: a level name, bare or tagged.
LevelTexts == LevelNames \cup {l \o sFallback : l \in LevelNames}
                         \cup {l \o sAi : l \in LevelNames}

AlertFields == {"id", "created_at", "lat", "lng", "triage_level", "notes"}

(***************************************************************************)
(* Properties                                                              *)
(***************************************************************************)
\* C1: whenever the AI call of a triage submission fails in any way (an
\* exception, or a content that names no level), the submission is still
\* answered normally and its result is the rule-based level of the same
\* symptoms, tagged as fallback.
C1_FallbackOnAnyFailure ==
    \A r \in Requests :
        (Classified(r) /\ AiFailed(r)) =>
            /\ resp[r].status = 200
            /\ resp[r].triage = RuleLevel(SymptomsOf(r)) \o sFallback

\* C2: the rule-based classification is first-match-wins over
\* case-insensitive substrings: a Critical keyword gives Critical whatever
\* else the text holds, otherwise an Urgent keyword gives Urgent, otherwise
\* Non-Urgent.
C2_RulePrecedence ==
    \A r \in Requests :
        (Classified(r) /\ (aiReply[r].kind = "raise" \/ aiReply[r].content = None)) =>
            LET text == SymptomsOf(r)
                critical == Mentions(text, kwBleeding) \/ Mentions(text, kwUnconscious)
                                \/ Mentions(text, kwHeart)
                urgent == Mentions(text, kwPain) \/ Mentions(text, kwFever)
            IN  /\ critical => resp[r].triage = sCritical \o sFallback
                /\ (~critical /\ urgent) => resp[r].triage = sUrgent \o sFallback
                /\ (~critical /\ ~urgent) => resp[r].triage = sNonUrgent \o sFallback

\* A fallback result Critical for a text that holds an Urgent keyword and,
\* in upper case, a Critical one.
C2_Witness ==
    \E r \in Requests :
        /\ Classified(r) /\ aiReply[r].kind = "raise"
        /\ Mentions(SymptomsOf(r), kwPain)
        /\ Mentions(SymptomsOf(r), kwUnconscious)
        /\ ~In(kwUnconscious, SymptomsOf(r))
        /\ resp[r].triage = sCritical \o sFallback

\* C3: every triage level a triage submission returns or an alert row stores
\* is Critical, Urgent or Non-Urgent, bare or tagged with its provenance.
C3_LevelsAreLevels ==
    /\ \A r \in Requests :
          (Done(r) /\ IsTriagePost(r) /\ resp[r].triage # None) =>
              resp[r].triage \in LevelTexts
    /\ \A i \in 1..Len(alerts) : alerts[i].triage_level \in LevelTexts

C5_IdsContiguous ==
    /\ \A i \in 1..Len(alerts) : alerts[i].id = alerts[1].id + (i - 1)
    /\ \A i, j \in 1..Len(alerts) : i < j => alerts[i].id < alerts[j].id
    /\ Cardinality({alerts[i].id : i \in 1..Len(alerts)}) = Len(alerts)
    /\ \A r \in Requests :
          (Done(r) /\ IsDashboard(r)) =>
              \A k \in 1..Len(resp[r].alerts) :
                  /\ DOMAIN resp[r].alerts[k] = AlertFields
                  /\ \E i \in 1..Len(alerts) : alerts[i] = resp[r].alerts[k]

\* Two rows are committed while a third submission holds its inserted row.
C5_Witness ==
    /\ Len(alerts) >= 2
    /\ \E r \in Requests : pc[r] = "commit" /\ txn[r] # NoRow

\* C6: no step changes or removes a committed alert row, a row joins the
\* log exactly as its submission inserted it, and a dashboard read returns
\* exactly the committed rows, newest first.
C6_AppendOnlyNewestFirst ==
    [][ /\ Len(alerts') >= Len(alerts)
        /\ \A i \in 1..Len(alerts) : alerts'[i] = alerts[i]
        /\ Len(alerts') <= Len(alerts) + 1
        /\ Len(alerts') = Len(alerts) + 1 =>
              \E r \in Requests :
                  /\ pc[r] = "commit"
                  /\ alerts'[Len(alerts')] = txn[r]
                  /\ txn[r].notes = NotesOf(r)
                  /\ txn[r].triage_level = sCritical
        /\ \A r \in Requests :
              (pc[r] = "new" /\ pc'[r] = "done" /\ req'[r].route = "/dashboard") =>
                  /\ alerts' = alerts
                  /\ Len(resp'[r].alerts) = Len(alerts)
                  /\ \A k \in 1..Len(alerts) :
                        resp'[r].alerts[k] = alerts[Len(alerts) - k + 1]
      ]_vars

\* A dashboard read that returned two rows.
C6_Witness ==
    \E r \in Requests :
        /\ Done(r) /\ IsDashboard(r)
        /\ Len(resp[r].alerts) = 2
        /\ resp[r].alerts[1].id > resp[r].alerts[2].id

\* C7: the log holds exactly one row per SOS submission that succeeded,
\* carrying that submission's notes, and every row is in the dashboard read.
C7_OneRowPerSos ==
    /\ \A n \in {FormGet(f.notes, <<>>) : f \in SosForms} :
          Cardinality({i \in 1..Len(alerts) : alerts[i].notes = n})
              = Cardinality({r \in Requests : SosSucceeded(r) /\ NotesOf(r) = n})
    /\ LET listed == OrderByIdDesc(alerts)
       IN  \A i \in 1..Len(alerts) :
              /\ alerts[i].notes \in {FormGet(f.notes, <<>>) : f \in SosForms}
              /\ \E k \in 1..Len(listed) : listed[k] = alerts[i]

\* Submissions with notes A and B both succeeded.
C7_Witness ==
    /\ \E r \in Requests : SosSucceeded(r) /\ NotesOf(r) = <<"A">>
    /\ \E r \in Requests : SosSucceeded(r) /\ NotesOf(r) = <<"B">>
    /\ Len(alerts) = 2
    /\ alerts[1].id # alerts[2].id

\* C8: a triage submission with empty symptoms sends nothing to the AI
\* service, is answered at once with no triage result, and leaves the
\* tables as they were.
C8_EmptySymptomsNoOp ==
    [][ \A r \in Requests :
          (/\ pc[r] = "new"
           /\ pc'[r] # "new"
           /\ req'[r].route = "/triage"
           /\ req'[r].method = "POST"
           /\ FormGet(req'[r].form.symptoms, <<>>) = <<>>) =>
              /\ pc'[r] = "done"
              /\ aiSent'[r] = <<>>
              /\ aiReply'[r] = NoReply
              /\ resp'[r].triage = None
              /\ alerts' = alerts /\ seq' = seq /\ profile' = profile
      ]_vars

\* An empty triage submission was answered while the log held a row.
C8_Witness ==
    \E r \in Requests :
        /\ Done(r) /\ IsTriagePost(r) /\ SymptomsOf(r) = <<>>
        /\ alerts # <<>>

\* C9: an SOS submission ends either answered with the redirect, its row
\* with a triage level in the log, or answered with an error, having left
\* no row: the log holds whole rows only, one per succeeded submission.
C9_AllOrNothing ==
    /\ \A r \in Requests :
          (Done(r) /\ IsSosPost(r)) =>
              /\ txn[r] = NoRow
              /\ dbLock # r
              /\ \/ /\ SosSucceeded(r)
                    /\ \E i \in 1..Len(alerts) :
                          /\ alerts[i].notes = NotesOf(r)
                          /\ alerts[i].triage_level \in LevelNames
                 \/ /\ SosFailed(r)
                    /\ resp[r] = ServerError
    /\ Len(alerts) = Cardinality({r \in Requests : SosSucceeded(r)})
    /\ \A i \in 1..Len(alerts) :
          /\ DOMAIN alerts[i] = AlertFields
          /\ alerts[i].triage_level \in LevelNames

\* One submission failed and another succeeded.
C9_Witness ==
    /\ \E r \in Requests : SosFailed(r)
    /\ \E r \in Requests : SosSucceeded(r)
    /\ Len(alerts) = 1

====
